---- MODULE Spec2Model ----
(***************************************************************************)
(* Music-Generation-with-AI: the training script (model.py) and the three  *)
(* generation entry points (gen.py, app.py, app2.py) as one state machine. *)
(* A behaviour is a session: scripts are launched one after another over   *)
(* one midi_songs directory; the weights file persists between runs, every *)
(* other variable is local to the running script.                          *)
(***************************************************************************)
EXTENDS Integers, Sequences, FiniteSets, TLC

(* ------------------------------ bounds -------------------------------- *)
\* Window size. The scripts set sequence_length = 100; the model runs the
\* same code with a small window.
sequence_length == 3
\* Iterations of the generation loop (total_notes = 500 / range(500)).
total_notes == 2
\* .mid files in midi_songs.
MaxFiles == 3
\* gen.py keeps the first ten files (midi_files[:10]); scaled with MaxFiles.
gen_file_cap == 2
\* app2.py shows ten files a page (files_to_show = 10); scaled.
files_to_show == 2
\* app2.py asks for exactly three selected files; scaled.
select_count == 2

(* ------------------------------ tokens -------------------------------- *)
\* A token is a Python str, modelled as the sequence of its characters.
A4 == <<"A", "4">>
B4 == <<"B", "4">>
C5 == <<"C", "5">>
Chord047 == <<"0", ".", "4", ".", "7">>
Chord7 == <<"7">>

\* Code point of a character (Python compares str by code point).
ord(c) ==
  CASE c = "." -> 46
    [] c = "0" -> 48
    [] c = "4" -> 52
    [] c = "5" -> 53
    [] c = "7" -> 55
    [] c = "A" -> 65
    [] c = "B" -> 66
    [] c = "C" -> 67

Digits == {"0", "4", "5", "7"}

\* s < t for Python str: first differing code point decides, a proper
\* prefix is smaller.
RECURSIVE str_lt(_, _)
str_lt(s, t) ==
  IF t = <<>> THEN FALSE
  ELSE IF s = <<>> THEN TRUE
  ELSE IF ord(Head(s)) # ord(Head(t)) THEN ord(Head(s)) < ord(Head(t))
  ELSE str_lt(Tail(s), Tail(t))

\* set(notes)
set_of(seq) == {seq[i] : i \in 1..Len(seq)}

\* First-occurrence order of the distinct elements (an unsorted list(set)).
RECURSIVE unsorted_distinct(_)
unsorted_distinct(seq) ==
  IF seq = <<>> THEN <<>>
  ELSE LET rest == unsorted_distinct(SubSeq(seq, 1, Len(seq) - 1))
           x == seq[Len(seq)]
       IN IF x \in set_of(rest) THEN rest ELSE Append(rest, x)

RECURSIVE sorted_set(_)
sorted_set(S) ==
  IF S = {} THEN <<>>
  ELSE LET m == CHOOSE x \in S : \A y \in S : y = x \/ str_lt(x, y)
       IN <<m>> \o sorted_set(S \ {m})

\* sorted(set(item for item in notes))
sorted(seq) == sorted_set(set_of(seq))

\* dict((note, number) for number, note in enumerate(pitchnames))
make_note_to_int(names) ==
  [t \in set_of(names) |-> (CHOOSE i \in 1..Len(names) : names[i] = t) - 1]

\* dict((number, note) for number, note in enumerate(pitchnames))
make_int_to_note(names) == [i \in 0..(Len(names) - 1) |-> names[i + 1]]

(* ------------------------------ corpus -------------------------------- *)
\* A .mid file: parses into its note/chord tokens, or raises in
\* converter.parse (ok = FALSE) and is skipped.
File(ok, tokens) == [ok |-> ok, tokens |-> tokens]
FileKinds ==
  { File(TRUE, <<A4, A4, B4>>),
    File(TRUE, <<C5, A4, B4>>),
    File(TRUE, <<Chord047, Chord7>>),
    File(FALSE, <<>>) }

RECURSIVE SeqsUpTo(_, _)
SeqsUpTo(S, n) ==
  IF n = 0 THEN {<<>>}
  ELSE LET shorter == SeqsUpTo(S, n - 1)
       IN shorter \cup {Append(s, x) : s \in {q \in shorter : Len(q) = n - 1}, x \in S}

Corpora == SeqsUpTo(FileKinds, MaxFiles)

\* get_notes: the tokens of the given files, in order; a file that fails
\* to parse contributes nothing.
RECURSIVE get_notes(_, _)
get_notes(files, sel) ==
  IF sel = <<>> THEN <<>>
  ELSE LET f == files[Head(sel) + 1]
       IN (IF f.ok THEN f.tokens ELSE <<>>) \o get_notes(files, Tail(sel))

\* seq[:n], a Python slice: it stops at the end of the list
take(seq, n) == SubSeq(seq, 1, IF n < Len(seq) THEN n ELSE Len(seq))

\* range(a, b) as a sequence
range(a, b) == [k \in 1..(IF b > a THEN b - a ELSE 0) |-> a + k - 1]

(* ------------------------- numbers in arrays -------------------------- *)
\* An array element: the number v / n_vocab^d, i.e. the index v divided d
\* times by float(n_vocab). d = 0 is a raw index.
Val(v, d) == [v |-> v, d |-> d]
raw(v) == Val(v, 0)
\* x / float(n_vocab)
divide(x) == Val(x.v, x.d + 1)
\* array / float(n_vocab), elementwise, on a one-dimensional array
divide_window(w) == [j \in 1..Len(w) |-> divide(w[j])]
\* array / float(n_vocab) on the (n_patterns, sequence_length, 1) array
divide_all(ws) == [i \in 1..Len(ws) |-> divide_window(ws[i])]

(* ------------------------ sliding-window builder ---------------------- *)
\* The loop start of the builder: range(0, len(notes) - sequence_length).
window_starts_skip_first(toks) == range(1, Len(toks) - sequence_length)
window_starts(toks) == range(0, Len(toks) - sequence_length)

\* network_input.append([note_to_int[char] for char in notes[i:i + sequence_length]])
build_network_input(toks, n2i) ==
  LET starts == window_starts(toks)
  IN [k \in 1..Len(starts) |->
        [j \in 1..sequence_length |-> raw(n2i[toks[starts[k] + j]])]]

\* network_output.append(note_to_int[notes[i + sequence_length]])
build_network_output(toks, n2i) ==
  LET starts == window_starts(toks)
  IN [k \in 1..Len(starts) |-> n2i[toks[starts[k] + sequence_length + 1]]]

\* len(notes) <= sequence_length
not_enough_strict(toks) == Len(toks) < sequence_length
not_enough(toks) == Len(toks) <= sequence_length

(* --------------------------- generation loop -------------------------- *)
\* pattern = np.append(pattern, index); pattern = pattern[1:len(pattern)]
slide_growing(w, idx) == Append(w, raw(idx))
slide(w, idx) == Tail(Append(w, raw(idx)))

\* `if result:` on a str: the empty string is falsy.
truthy(tok) == tok # <<>>

(* ------------------------------ create_midi --------------------------- *)
\* pattern.isdigit()
isdigit(s) == s # <<>> /\ \A i \in 1..Len(s) : s[i] \in Digits

\* pattern.split('.')
RECURSIVE split(_)
split(s) ==
  IF \A i \in 1..Len(s) : s[i] # "." THEN <<s>>
  ELSE LET p == CHOOSE i \in 1..Len(s) : s[i] = "." /\ \A k \in 1..(i - 1) : s[k] # "."
       IN <<SubSeq(s, 1, p - 1)>> \o split(SubSeq(s, p + 1, Len(s)))

\* int(current_note) for a string of decimal digits
RECURSIVE to_int(_)
to_int(s) ==
  IF s = <<>> THEN 0
  ELSE 10 * to_int(SubSeq(s, 1, Len(s) - 1)) + (ord(s[Len(s)]) - ord("0"))

is_chord(tok) == (\E i \in 1..Len(tok) : tok[i] = ".") \/ isdigit(tok)

\* One event of output_notes. offset is counted in halves: offset = 1 is
\* the Python float 0.5 (offset += 0.5 adds one half).
Chord(pitches, off) == [kind |-> "chord", name |-> <<>>, pitches |-> pitches, offset |-> off]
Note(name, off) == [kind |-> "note", name |-> name, pitches |-> <<>>, offset |-> off]

event_of(tok, off) ==
  IF is_chord(tok)
  THEN LET parts == split(tok)
       IN Chord([k \in 1..Len(parts) |-> to_int(parts[k])], off)
  ELSE Note(tok, off)

\* `offset += 0.5` placed inside the else (note) branch only.
next_offset_notes_only(tok, offset) == IF is_chord(tok) THEN offset ELSE offset + 1
\* offset += 0.5, after either branch
next_offset(tok, offset) == offset + 1

\* for pattern in prediction_output: ... output_notes.append(...); offset += 0.5
RECURSIVE create_loop(_, _, _)
create_loop(toks, offset, out) ==
  IF toks = <<>> THEN out
  ELSE create_loop(Tail(toks), next_offset(Head(toks), offset),
                   Append(out, event_of(Head(toks), offset)))

\* offset = 0; output_notes = []; the loop
create_events(toks) == create_loop(toks, 0, <<>>)

(* ------------------------------- state -------------------------------- *)
VARIABLES
  midi_songs,        \* the .mid files os.walk finds, in walk order
  weights,           \* music_generator_model.h5
  start_index,       \* st.session_state['start_index'] of app2.py; the model
                     \* follows one browser session of app2.py at a time, and
                     \* launching another script ends it
  script,            \* the script being run
  pc,                \* its position
  error,             \* the exception that ended it, if any
  reported,          \* messages printed / st.error / st.warning in this run
  selected_files,    \* indices of the files handed to get_notes
  notes, n_vocab, pitchnames, note_to_int,
  network_input, network_output,
  model,             \* the loaded model
  start, int_to_note, pattern, prediction_input, prediction_output,
  note_index, index,
  output_notes,
  write_failed       \* midi_stream.write raised in this run

session == <<midi_songs, weights, start_index>>
data == <<notes, n_vocab, pitchnames, note_to_int, network_input, network_output>>
gen == <<model, start, int_to_note, pattern, prediction_input, prediction_output,
         note_index, index>>
midi == <<output_notes, write_failed>>
vars == <<session, script, pc, error, reported, selected_files, data, gen, midi>>

NoWeights == [saved |-> FALSE, n_vocab |-> 0, pitchnames |-> <<>>, songs |-> <<>>]
Scripts == {"model.py", "gen.py", "app.py", "app2.py"}
Generators == {"gen.py", "app.py", "app2.py"}
\* "shown": a Streamlit rerun that drew the page without generating.
Ended == {"shown", "done", "exited", "crashed"}

MsgNoSequences == "Error: No sequences were created."
MsgNotEnough == "Not enough notes to generate sequences."
MsgNoFiles == "No MIDI files found in the 'midi_songs' directory."
MsgLoad == "Error loading model"
MsgNoInput == "No input sequences available."
MsgWrite == "Error writing MIDI file"
MsgSaved == "MIDI file saved to: output.mid"
MsgSelect == "Please select exactly three MIDI files."
MsgLink == "<a href=data:application/octet-stream;base64,...>Download Generated Music</a>"

all_files == range(0, Len(midi_songs))

Init ==
  /\ midi_songs \in Corpora
  /\ weights = NoWeights
  /\ start_index = 0
  /\ script = "none"
  /\ pc = "idle"
  /\ error = "none"
  /\ reported = {}
  /\ selected_files = <<>>
  /\ notes = <<>> /\ n_vocab = 0 /\ pitchnames = <<>> /\ note_to_int = <<>>
  /\ network_input = <<>> /\ network_output = <<>>
  /\ model = NoWeights
  /\ start = 0 /\ int_to_note = <<>> /\ pattern = <<>>
  /\ prediction_input = <<>> /\ prediction_output = <<>>
  /\ note_index = 0 /\ index = 0
  /\ output_notes = <<>> /\ write_failed = FALSE

\* A fresh interpreter: no name of the script is bound yet.
Fresh ==
  /\ error' = "none"
  /\ notes' = <<>> /\ n_vocab' = 0 /\ pitchnames' = <<>> /\ note_to_int' = <<>>
  /\ network_input' = <<>> /\ network_output' = <<>>
  /\ model' = NoWeights
  /\ start' = 0 /\ int_to_note' = <<>> /\ pattern' = <<>>
  /\ prediction_input' = <<>> /\ prediction_output' = <<>>
  /\ note_index' = 0 /\ index' = 0
  /\ output_notes' = <<>> /\ write_failed' = FALSE

Raise(e) == pc' = "crashed" /\ error' = e
Say(m) == reported' = reported \cup {m}

(* ----------------------------- launching ------------------------------ *)
\* The run is over (end of script, exit()/st.stop(), or a traceback): its
\* names are gone, the files and the Streamlit session state stay.
Exit ==
  /\ pc \in Ended
  /\ Fresh
  /\ script' = "none" /\ pc' = "idle"
  /\ selected_files' = <<>>
  /\ reported' = {}
  /\ UNCHANGED session

\* Between runs the user takes the last file out of midi_songs, the
\* directory the weights were trained on (one such edit per training run).
RemoveFile ==
  /\ pc = "idle"
  /\ weights.saved
  /\ weights.songs = midi_songs
  /\ midi_songs' = SubSeq(midi_songs, 1, Len(midi_songs) - 1)
  /\ start_index' = 0
  /\ UNCHANGED <<weights, script, pc, error, reported, selected_files,
                 data, gen, midi>>

\* python model.py: get_notes() walks every file of midi_songs.
LaunchModel ==
  /\ pc = "idle"
  /\ script' = "model.py" /\ pc' = "get_notes"
  /\ selected_files' = all_files
  /\ start_index' = 0
  /\ UNCHANGED <<midi_songs, weights, error, reported, data, gen, midi>>

\* python gen.py: get_all_midi_files('midi_songs')[:10]
LaunchGen ==
  /\ pc = "idle"
  /\ script' = "gen.py" /\ pc' = "get_notes"
  /\ selected_files' = take(all_files, gen_file_cap)
  /\ start_index' = 0
  /\ UNCHANGED <<midi_songs, weights, error, reported, data, gen, midi>>

\* app.py, a rerun of the script; the work is behind the Generate button.
LaunchApp ==
  /\ pc = "idle"
  /\ script' = "app.py"
  /\ selected_files' = all_files
  /\ \E pressed \in BOOLEAN : pc' = IF pressed THEN "get_notes" ELSE "shown"
  /\ start_index' = 0
  /\ UNCHANGED <<midi_songs, weights, error, reported, data, gen, midi>>

\* app2.py, a rerun of the script: pagination, the checkboxes of the page
\* shown, the exactly-three test and the Generate button.
LaunchApp2 ==
  /\ pc = "idle"
  /\ script' = "app2.py"
  /\ \E button \in {"none", "show_more", "generate"},
        checked \in SUBSET (0..(Len(midi_songs) - 1)) :
       \* the model stops paging once the page shown is past the last file
       /\ button = "show_more" => start_index < Len(midi_songs)
       /\ LET first == IF button = "show_more" THEN start_index + files_to_show
                       ELSE start_index
              end_index == first + files_to_show
              last == IF end_index < Len(midi_songs) THEN end_index ELSE Len(midi_songs)
              shown == range(first, last)
              sel == SelectSeq(shown, LAMBDA i : i \in checked)
          IN /\ start_index' = first
             /\ selected_files' = sel
             /\ IF Len(sel) # select_count
                THEN reported' = {MsgSelect} /\ pc' = "shown"
                ELSE /\ reported' = {}
                     /\ pc' = IF button = "generate" THEN "get_notes" ELSE "shown"
  /\ UNCHANGED <<midi_songs, weights, error, data, gen, midi>>

(* ------------------------- loading and encoding ----------------------- *)
\* notes = get_notes(...)
GetNotes ==
  /\ pc = "get_notes"
  /\ notes' = get_notes(midi_songs, selected_files)
  /\ reported' = IF script = "app.py" /\ Len(midi_songs) = 0
                 THEN reported \cup {MsgNoFiles} ELSE reported
  /\ pc' = IF script = "model.py" THEN "vocab" ELSE "check_notes"
  /\ UNCHANGED <<session, script, error, selected_files, n_vocab, pitchnames,
                 note_to_int, network_input, network_output, gen, midi>>

\* The generation scripts: if len(notes) <= sequence_length: report, else go on.
CheckNotes ==
  /\ pc = "check_notes"
  /\ IF not_enough(notes)
     THEN Say(MsgNotEnough) /\ pc' = "done"
     ELSE UNCHANGED reported /\ pc' = "vocab"
  /\ UNCHANGED <<session, script, error, selected_files, data, gen, midi>>

\* n_vocab, pitchnames, note_to_int
Vocab ==
  /\ pc = "vocab"
  /\ n_vocab' = Cardinality(set_of(notes))
  /\ pitchnames' = sorted(notes)
  /\ note_to_int' = make_note_to_int(sorted(notes))
  /\ pc' = "build"
  /\ UNCHANGED <<session, script, error, reported, selected_files, notes,
                 network_input, network_output, gen, midi>>

\* The sliding-window loop (network_output only in model.py).
Build ==
  /\ pc = "build"
  /\ network_input' = build_network_input(notes, note_to_int)
  /\ network_output' = IF script = "model.py"
                       THEN build_network_output(notes, note_to_int) ELSE <<>>
  /\ pc' = "built"
  /\ UNCHANGED <<session, script, error, reported, selected_files, notes, n_vocab,
                 pitchnames, note_to_int, gen, midi>>

\* model.py: if len(network_output) == 0: print the error and exit().
CheckPatterns ==
  /\ pc = "built" /\ script = "model.py"
  /\ IF Len(network_output) = 0
     THEN Say(MsgNoSequences) /\ pc' = "exited"
     ELSE UNCHANGED reported /\ pc' = "normalize"
  /\ UNCHANGED <<session, script, error, selected_files, data, gen, midi>>

\* network_input = np.reshape(...); network_input = network_input / float(n_vocab)
Normalize ==
  /\ \/ pc = "normalize" /\ script = "model.py"
     \/ pc = "built" /\ script \in Generators
  /\ network_input' = divide_all(network_input)
  /\ pc' = IF script = "model.py" THEN "train" ELSE "load_model"
  /\ UNCHANGED <<session, script, error, reported, selected_files, notes, n_vocab,
                 pitchnames, note_to_int, network_output, gen, midi>>

\* model.py: build the network with Dense(n_vocab), fit, save. pitchnames
\* and songs are kept beside the saved weights only to compare a later run
\* with the training run; the code saves neither.
Train ==
  /\ pc = "train"
  /\ weights' = [saved |-> TRUE, n_vocab |-> n_vocab, pitchnames |-> pitchnames,
                 songs |-> midi_songs]
  /\ pc' = "done"
  /\ UNCHANGED <<midi_songs, start_index, script, error, reported,
                 selected_files, data, gen, midi>>

\* load_model inside try/except: a missing file is reported and the run
\* ends (exit(1) / st.stop()).
LoadModel ==
  /\ pc = "load_model"
  /\ IF weights.saved
     THEN model' = weights /\ UNCHANGED reported /\ pc' = "seed"
     ELSE UNCHANGED model /\ Say(MsgLoad) /\ pc' = "exited"
  /\ UNCHANGED <<session, script, error, selected_files, data, start, int_to_note,
                 pattern, prediction_input, prediction_output, note_index, index, midi>>

(* ---------------------------- generate_notes -------------------------- *)
\* The values np.random.randint(0, n - 1) can return: low inclusive, high
\* exclusive; it raises ValueError when low >= high.
randint(low, high) == low..(high - 1)

\* generate_notes up to the loop: the empty-pool guard, the random start,
\* int_to_note, the seed window.
Seed ==
  /\ pc = "seed"
  /\ UNCHANGED <<session, script, selected_files, data, model, prediction_input,
                 note_index, index, midi>>
  /\ IF Len(network_input) = 0
     THEN /\ Say(MsgNoInput)
          /\ pc' = "returned"
          /\ UNCHANGED <<error, start, int_to_note, pattern, prediction_output>>
     ELSE IF randint(0, Len(network_input) - 1) = {}
     THEN /\ Raise("ValueError")
          /\ UNCHANGED <<reported, start, int_to_note, pattern, prediction_output>>
     ELSE /\ \E s \in randint(0, Len(network_input) - 1) :
               /\ start' = s
               /\ pattern' = network_input[s + 1]
          /\ int_to_note' = make_int_to_note(pitchnames)
          /\ prediction_output' = <<>>
          /\ pc' = "predict"
          /\ UNCHANGED <<error, reported>>

\* One iteration of the loop. model.predict answers with a distribution over
\* the classes the network was built with (Dense(n_vocab) at training time);
\* np.argmax of it is any of those classes.
Iterate ==
  /\ pc = "predict"
  /\ UNCHANGED <<session, script, reported, selected_files, data, model, start,
                 int_to_note, midi>>
  /\ prediction_input' = divide_window(pattern)
  /\ \E idx \in 0..(model.n_vocab - 1) :
       /\ index' = idx
       /\ IF script = "app.py" /\ idx \notin DOMAIN int_to_note
          THEN \* result = int_to_note[index]
               /\ Raise("KeyError")
               /\ UNCHANGED <<pattern, prediction_output, note_index>>
          ELSE /\ prediction_output' =
                    IF idx \in DOMAIN int_to_note
                       /\ (script = "app.py" \/ truthy(int_to_note[idx]))
                    THEN Append(prediction_output, int_to_note[idx])
                    ELSE prediction_output
               /\ pattern' = slide(pattern, idx)
               /\ note_index' = note_index + 1
               /\ pc' = IF note_index + 1 < total_notes THEN "predict" ELSE "returned"
               /\ UNCHANGED error

(* --------------------------- create_midi, called ---------------------- *)
\* if prediction_output: create_midi(prediction_output), the whole call: the
\* decoding loop, stream.Stream(output_notes) and midi_stream.write, which
\* succeeds or raises. gen.py and app2.py wrap the write in try/except,
\* app.py does not.
CreateMidi ==
  /\ pc = "returned"
  /\ UNCHANGED <<session, script, selected_files, data, gen>>
  /\ IF prediction_output = <<>>
     THEN pc' = "done" /\ UNCHANGED <<error, reported, midi>>
     ELSE /\ output_notes' = create_events(prediction_output)
          /\ \E ok \in BOOLEAN :
               IF ok
               THEN /\ write_failed' = FALSE
                    /\ reported' = IF script = "app.py" THEN reported
                                   ELSE reported \cup {MsgSaved}
                    /\ pc' = IF script = "gen.py" THEN "done" ELSE "audio"
                    /\ UNCHANGED error
               ELSE /\ write_failed' = TRUE
                    /\ IF script = "app.py"
                       THEN Raise("write") /\ UNCHANGED reported
                       ELSE /\ Say(MsgWrite)
                            /\ pc' = IF script = "gen.py" THEN "done" ELSE "audio"
                            /\ UNCHANGED error

\* st.audio('output.mid'), and in app.py open('output.mid', 'rb') for the
\* download button: both read the file. After a failed write the file is
\* there only if something left one earlier (stale), else the read raises.
Audio ==
  /\ pc = "audio"
  /\ \E stale \in BOOLEAN :
       IF ~write_failed \/ stale
       THEN pc' = (IF script = "app2.py" THEN "download_link" ELSE "done")
            /\ UNCHANGED error
       ELSE Raise("FileNotFoundError")
  /\ UNCHANGED <<session, script, reported, selected_files, data, gen, midi>>

\* Lines of app2.py: the statement that calls get_binary_file_downloader_html
\* and the def statement that binds the name.
helper_call_line == 175
helper_def_line == 179

\* Module-level statements run top to bottom in a namespace that is new for
\* every rerun: a def has bound its name at a statement only when the def
\* comes first.
bound_at(def_line, use_line) == def_line < use_line

\* st.markdown(get_binary_file_downloader_html('output.mid', ...)): the
\* data-URI link when the helper is bound, NameError when it is not.
DownloadLink ==
  /\ pc = "download_link"
  /\ IF bound_at(helper_def_line, helper_call_line)
     THEN Say(MsgLink) /\ pc' = "done" /\ UNCHANGED error
     ELSE Raise("NameError") /\ UNCHANGED reported
  /\ UNCHANGED <<session, script, selected_files, data, gen, midi>>

Next ==
  \/ Exit \/ RemoveFile
  \/ LaunchModel \/ LaunchGen \/ LaunchApp \/ LaunchApp2
  \/ GetNotes \/ CheckNotes \/ Vocab \/ Build \/ CheckPatterns \/ Normalize
  \/ Train \/ LoadModel
  \/ Seed \/ Iterate
  \/ CreateMidi \/ Audio \/ DownloadLink

Spec == Init /\ [][Next]_vars

(* ------------------------------ properties ---------------------------- *)
\* The script has run get_notes.
NotesLoaded == script \in Scripts /\ pc \notin {"get_notes", "shown"}

\* The script has run the vocabulary lines (n_vocab, pitchnames, note_to_int).
VocabBuilt ==
  /\ NotesLoaded
  /\ pc \notin {"check_notes", "vocab"}
  /\ (script \in Generators /\ pc = "done") => Len(notes) > sequence_length

\* C1: with N tokens and window W < N the builder leaves exactly N - W
\* examples; example i is W raw indices, the vocabulary indices of
\* tokens[i..i+W-1] in order, and in training its target is the index of
\* tokens[i+W].
C1_SlidingWindows ==
  (pc = "built" /\ sequence_length < Len(notes)) =>
    LET N == Len(notes)
        W == sequence_length
    IN /\ Len(network_input) = N - W
       /\ script = "model.py" => Len(network_output) = N - W
       /\ \A i \in 0..(N - W - 1) :
            /\ Len(network_input[i + 1]) = W
            /\ \A j \in 1..W :
                 /\ network_input[i + 1][j].d = 0
                 /\ network_input[i + 1][j].v \in 0..(Len(pitchnames) - 1)
                 /\ pitchnames[network_input[i + 1][j].v + 1] = notes[i + j]
            /\ script = "model.py" =>
                 /\ network_output[i + 1] \in 0..(Len(pitchnames) - 1)
                 /\ pitchnames[network_output[i + 1] + 1] = notes[i + W + 1]

\* C1 witness: the training run at the spec's scenario, tokens
\* [A4,A4,B4,C5,A4,B4] with W = 3, after the builder.
C1_Witness ==
  /\ pc = "built" /\ script = "model.py"
  /\ notes = <<A4, A4, B4, C5, A4, B4>>
  /\ sequence_length = 3
  /\ network_input = << <<raw(0), raw(0), raw(1)>>,
                        <<raw(0), raw(1), raw(2)>>,
                        <<raw(1), raw(2), raw(0)>> >>
  /\ network_output = <<2, 0, 1>>

\* C2: in every entry point, once the tokens are loaded and there are at
\* most W of them, there are no examples, the run is nowhere past the
\* sufficiency test (no training, model loading, inference or MIDI writing),
\* and a run that has ended has reported the failure.
C2_NotEnoughNotes ==
  (NotesLoaded /\ Len(notes) <= sequence_length) =>
    /\ network_input = <<>> /\ network_output = <<>>
    /\ output_notes = <<>> /\ prediction_output = <<>> /\ ~model.saved
    /\ script = "model.py" => pc \in {"vocab", "build", "built", "exited"}
    /\ script \in Generators => pc \in {"check_notes", "done"}
    /\ script = "model.py" => weights.songs # midi_songs \/ ~weights.saved
    /\ pc \in Ended =>
         \/ script = "model.py" /\ pc = "exited" /\ MsgNoSequences \in reported
         \/ script \in Generators /\ pc = "done" /\ MsgNotEnough \in reported

\* C2 witness: gen.py ended on exactly W tokens with the message.
C2_Witness ==
  /\ script = "gen.py" /\ pc = "done"
  /\ Len(notes) = sequence_length
  /\ MsgNotEnough \in reported

\* C3: pitchnames is the distinct tokens in strictly ascending
\* lexicographic order, n_vocab their number V, note_to_int maps each token
\* to its position in 0..V-1 one-to-one, and int_to_note (once
\* generate_notes has built it) is its inverse both ways.
C3_VocabularyBijection ==
  VocabBuilt =>
    LET V == Cardinality(set_of(notes))
    IN /\ n_vocab = V
       /\ Len(pitchnames) = V
       /\ set_of(pitchnames) = set_of(notes)
       /\ \A i \in 1..(V - 1) : str_lt(pitchnames[i], pitchnames[i + 1])
       /\ DOMAIN note_to_int = set_of(notes)
       /\ \A t \in set_of(notes) :
            /\ note_to_int[t] \in 0..(V - 1)
            /\ pitchnames[note_to_int[t] + 1] = t
       /\ \A t, u \in set_of(notes) : note_to_int[t] = note_to_int[u] => t = u
       /\ int_to_note # <<>> =>
            /\ DOMAIN int_to_note = 0..(V - 1)
            /\ \A t \in set_of(notes) : int_to_note[note_to_int[t]] = t
            /\ \A i \in 0..(V - 1) : note_to_int[int_to_note[i]] = i

\* C3 witness: the spec's scenario inside generate_notes: {A4:0, B4:1, C5:2}
\* and its inverse.
C3_Witness ==
  /\ pc = "predict"
  /\ notes = <<A4, A4, B4, C5, A4, B4>>
  /\ pitchnames = <<A4, B4, C5>>
  /\ note_to_int[A4] = 0 /\ note_to_int[B4] = 1 /\ note_to_int[C5] = 2
  /\ int_to_note[0] = A4 /\ int_to_note[1] = B4 /\ int_to_note[2] = C5

\* C4: a generation run that has loaded the weights model.py trained on
\* this same midi_songs directory has built the same vocabulary (tokens,
\* index order and n_vocab) as that training run.
C4_SameVocabulary ==
  (script \in Generators /\ model.saved /\ model.songs = midi_songs) =>
    /\ pitchnames = model.pitchnames
    /\ n_vocab = model.n_vocab

\* C5: an iteration whose argmax index has no entry in int_to_note appends
\* nothing to prediction_output, still slides the window over the raw index
\* and goes on (it does not end the run).
C5_UnmappedSkipped ==
  [][(pc = "predict" /\ index' \notin DOMAIN int_to_note) =>
       /\ pc' # "crashed"
       /\ prediction_output' = prediction_output
       /\ pattern' = Tail(pattern) \o <<raw(index')>>
       /\ note_index' = note_index + 1]_vars

\* C6: the seed window has W elements, and every completed iteration keeps
\* the window at W elements: elements 2..W move to 1..W-1 and the predicted
\* index is the new last element.
C6_WindowLength ==
  [][/\ (pc = "seed" /\ pc' = "predict") => Len(pattern') = sequence_length
     /\ (pc = "predict" /\ note_index' = note_index + 1) =>
          /\ Len(pattern) = sequence_length
          /\ Len(pattern') = sequence_length
          /\ \A j \in 1..(sequence_length - 1) : pattern'[j] = pattern[j + 1]
          /\ pattern'[Len(pattern')] = raw(index')]_vars

\* C6 witness: the loop has run all its iterations and the window still
\* has W elements.
C6_Witness ==
  /\ pc = "returned" /\ script = "gen.py"
  /\ note_index = total_notes /\ total_notes >= 2
  /\ Len(pattern) = sequence_length

\* C7: with a pool of n >= 1 windows the seeding step can choose every
\* index 0..n-1 (the last window and the sole window included) and reach
\* the loop.
C7_SeedCoversPool ==
  (pc = "seed" /\ Len(network_input) >= 1) =>
    \A i \in 0..(Len(network_input) - 1) :
      ENABLED (Seed /\ pc' = "predict" /\ start' = i)

\* C8: when midi_stream.write fails, in any generation variant, the
\* exception does not leave create_midi and the failure is reported.
C8_WriteFailureContained ==
  write_failed => (error # "write" /\ MsgWrite \in reported)

\* C9: create_midi makes one event per token of prediction_output, in
\* order, the k-th (from 0) at offset 0.5 * k, chord or note alike (offsets
\* are counted in halves).
C9_Offsets ==
  output_notes # <<>> =>
    /\ Len(output_notes) = Len(prediction_output)
    /\ \A k \in 1..Len(output_notes) :
         LET e == output_notes[k]
             tok == prediction_output[k]
         IN /\ e.offset = k - 1
            /\ e.kind = "note" => e.name = tok
            /\ e.kind = "chord" =>
                 Len(e.pitches) = 1 + Cardinality({i \in 1..Len(tok) : tok[i] = "."})
    /\ \A k \in 1..(Len(output_notes) - 1) :
         output_notes[k + 1].offset - output_notes[k].offset = 1

\* C9 witness: a chord followed by a note, half a beat apart.
C9_Witness ==
  /\ Len(output_notes) = 2
  /\ output_notes[1] = Chord(<<0, 4, 7>>, 0)
  /\ output_notes[2] = Note(A4, 1)

\* n^k
RECURSIVE Pow(_, _)
Pow(n, k) == IF k = 0 THEN 1 ELSE n * Pow(n, k - 1)

\* The number x is an integer index of the model's range.
IsIndex(x) == \E q \in 0..(model.n_vocab - 1) : x.v = q * Pow(n_vocab, x.d)
\* The number y is index / n_vocab for such an index.
IsIndexOverVocab(y) ==
  \E q \in 0..(model.n_vocab - 1) : y.v * n_vocab = q * Pow(n_vocab, y.d)

\* C10: at every iteration the window holds token indices and the array
\* given to model.predict is the window divided once by n_vocab.
C10_NormalizedOnce ==
  /\ pc = "predict" => \A j \in 1..Len(pattern) : IsIndex(pattern[j])
  /\ prediction_input # <<>> =>
       \A j \in 1..Len(prediction_input) : IsIndexOverVocab(prediction_input[j])

\* C11: an app2.py run with exactly the asked number of files ticked,
\* Generate Music pressed, more than W tokens, the model loaded, a non-empty
\* generate_notes output and output.mid written ends normally with the
\* data-URI download link shown, not in an unhandled error.
C11_GenerateCompletes ==
  ( /\ script = "app2.py"
    /\ Len(selected_files) = select_count
    /\ Len(notes) > sequence_length
    /\ model.saved
    /\ prediction_output # <<>>
    /\ output_notes # <<>> /\ ~write_failed
    /\ pc \in Ended ) =>
      /\ pc = "done"
      /\ error = "none"
      /\ MsgLink \in reported

====
